---- MODULE Spec2Model ----
(***************************************************************************)
(* Model of the two HTTP services of lilith-compose:                       *)
(*   - the spaCy NER service (ai-stack/spacy-api/app/main.py): the lazy    *)
(*     per-language model cache (_nlp_cache, get_nlp, load_nlp), the /ner  *)
(*     handler and the lifespan hook;                                      *)
(*   - the fastText language-identification service                        *)
(*     (ai-stack/fasttext-api/app.py): the startup hook and /detect.       *)
(*                                                                         *)
(* /ner is a plain "def" endpoint, so the framework runs each request on   *)
(* a worker thread: the statements of get_nlp of different requests        *)
(* interleave.  A thread is modelled by its position (pc) and its locals.  *)
(* /detect is an "async def" endpoint without an await: it runs to its     *)
(* end on the event loop and is one atomic action.                         *)
(***************************************************************************)
EXTENDS Integers, Sequences, FiniteSets, TLC

\* ---------------------------------------------------------------- bounds

\* worker threads serving /ner at the same time
MaxThreads == 2
\* calls of load_nlp in one run
MaxLoads == 2
\* characters in a request text
MaxTextLen == 2
\* spans the model reports for one text
MaxSpans == 2

VARIABLES
    cache,      \* _nlp_cache: language code -> handle, Absent when not a key
    log,        \* the calls of load_nlp so far: <<[lang, ok]>>; a handle is
                \* the index of the call that produced it
    phase,      \* "serving" | "stopped" (after the lifespan hook's teardown)
    pc,         \* per thread: position in ner / get_nlp
    lang,       \* per thread: req.lang
    text,       \* per thread: req.text
    loaded,     \* per thread: the load_nlp call made by this request (0: none)
    nlp,        \* per thread: the handle get_nlp returned (Absent: none yet)
    doc,        \* per thread: doc.ents, the spans the model reported
    resp,       \* per thread: the HTTP response of the request
    model,      \* fastText: the global "model" ("None" | "loaded")
    file,       \* fastText: whether MODEL_PATH exists ("missing" | "present")
    startup,    \* fastText: "pending" | "up" | "failed"
    detected    \* fastText: the /detect request being answered, its call of
                \* model.predict and its response

nerVars == <<cache, log, phase, pc, lang, text, loaded, nlp, doc, resp>>
ftVars == <<model, file, startup, detected>>
vars == <<cache, log, phase, pc, lang, text, loaded, nlp, doc, resp,
          model, file, startup, detected>>

\* ------------------------------------------------------- NER: constants

MODELS ==
    [en |-> "en_core_web_md",
     fr |-> "fr_core_news_md",
     de |-> "de_core_news_md",
     nl |-> "nl_core_news_md",
     ru |-> "ru_core_news_md",
     ar |-> "xx_ent_wiki_sm",
     ms |-> "xx_ent_wiki_sm"]

SUPPORTED_LANGS == DOMAIN MODELS

\* language codes a request may carry: the registry's keys and one that is
\* not a key
LangCodes == SUPPORTED_LANGS \cup {"zz"}

Threads == 1 .. MaxThreads

Absent == 0

\* Field(..., min_length=1) of NERRequest.text
MinLength == 1

Chars == {"a", "b"}

Labels == {"PER", "ORG"}

\* the sequences over S of length at most n
SeqsUpTo(S, n) == UNION {[1 .. k -> S] : k \in 0 .. n}

Texts == SeqsUpTo(Chars, MaxTextLen)

\* ------------------------------------------------------- NER: responses

NoResponse == [status |-> 0, detail |-> [what |-> "", arg |-> ""], entities |-> <<>>]

HTTPException(status_code, detail) ==
    [status |-> status_code, detail |-> detail, entities |-> <<>>]

\* the framework's answer to a body that fails NERRequest's validation
ValidationError ==
    HTTPException(422, [what |-> "string_too_short", arg |-> "text"])

\* the framework's answer to an exception the handler does not catch
InternalServerError ==
    HTTPException(500, [what |-> "Internal Server Error", arg |-> ""])

\* raise ValueError(f"Unsupported language: {lang}. Supported: ...")
UnsupportedLanguage(l) ==
    [type |-> "ValueError", msg |-> [what |-> "Unsupported language", arg |-> l]]

\* raise RuntimeError(f"Model {model_name} not found. Run: python -m spacy
\* download {model_name}")
ModelUnavailable(l) ==
    [type |-> "RuntimeError",
     msg |-> [what |-> "Model not found. Run: python -m spacy download",
              arg |-> MODELS[l]]]

\* ner_except with the two status codes exchanged
ner_except_swapped(e) ==
    IF e.type = "ValueError" THEN HTTPException(500, e.msg)
    ELSE IF e.type = "RuntimeError" THEN HTTPException(400, e.msg)
    ELSE InternalServerError

\* the except clauses of ner around get_nlp
ner_except(e) ==
    IF e.type = "ValueError" THEN HTTPException(400, e.msg)
    ELSE IF e.type = "RuntimeError" THEN HTTPException(500, e.msg)
    ELSE InternalServerError

NERResponse(entities) ==
    [status |-> 200, detail |-> [what |-> "", arg |-> ""], entities |-> entities]

\* ------------------------------------------------------- NER: helpers

\* ValidRequest without the min_length constraint
ValidRequest_unchecked(txt) == TRUE

\* NERRequest: text has min_length=1
ValidRequest(txt) == Len(txt) >= MinLength

\* Supported without the membership test
Supported_any(l) == TRUE

\* get_nlp: lang in SUPPORTED_LANGS
Supported(l) == l \in SUPPORTED_LANGS

\* InCache when the cache is never consulted
InCache_never(l) == FALSE

\* get_nlp: lang in _nlp_cache
InCache(l) == cache[l] # Absent

\* Assign when the outcome of a failed load is stored as well
Assign_poisoned(c, l, h) == [c EXCEPT ![l] = h]

\* _nlp_cache[lang] = load_nlp(lang): the assignment happens only when
\* load_nlp returned; when it raised, the exception leaves the statement
Assign(c, l, h) == IF log[h].ok THEN [c EXCEPT ![l] = h] ELSE c

\* the spans a model may report for txt (doc.ents): non-empty character
\* ranges of txt with their text and a label
SpansOf(txt) ==
    {[text |-> SubSeq(txt, r[1] + 1, r[2]), label_ |-> r[3],
      start_char |-> r[1], end_char |-> r[2]] :
        r \in {q \in (0 .. Len(txt)) \X (0 .. Len(txt)) \X Labels : q[1] < q[2]}}

\* Entity with start and end exchanged
Entity_swapped(e) ==
    [text |-> e.text, label |-> e.label_, start |-> e.end_char, end |-> e.start_char]

\* Entity(text=e.text, label=e.label_, start=e.start_char, end=e.end_char)
Entity(e) ==
    [text |-> e.text, label |-> e.label_, start |-> e.start_char, end |-> e.end_char]

\* [Entity(...) for e in doc.ents]
Entities(ents) == [i \in 1 .. Len(ents) |-> Entity(ents[i])]

\* ------------------------------------------------------- NER: actions

\* POST /ner arrives on thread t: the body is validated against NERRequest,
\* ner calls get_nlp(req.lang), whose first statement rejects a language
\* that is not supported (ValueError, answered 400 by ner's except clause)
Request(t, l, txt) ==
    /\ phase = "serving"
    /\ pc[t] = "idle"
    /\ lang' = [lang EXCEPT ![t] = l]
    /\ text' = [text EXCEPT ![t] = txt]
    /\ IF ~ValidRequest(txt)
       THEN /\ pc' = [pc EXCEPT ![t] = "done"]
            /\ resp' = [resp EXCEPT ![t] = ValidationError]
       ELSE IF ~Supported(l)
       THEN /\ pc' = [pc EXCEPT ![t] = "done"]
            /\ resp' = [resp EXCEPT ![t] = ner_except(UnsupportedLanguage(l))]
       ELSE /\ pc' = [pc EXCEPT ![t] = "check"]
            /\ resp' = resp
    /\ UNCHANGED <<cache, log, phase, loaded, nlp, doc>>
    /\ UNCHANGED ftVars

\* get_nlp: if lang not in _nlp_cache
Check(t) ==
    /\ pc[t] = "check"
    /\ pc' = [pc EXCEPT ![t] = IF InCache(lang[t]) THEN "ret" ELSE "load"]
    /\ UNCHANGED <<cache, log, phase, lang, text, loaded, nlp, resp, doc>>
    /\ UNCHANGED ftVars

\* load_nlp(lang): spacy.load returns a new pipeline (ok) or raises OSError
\* because the package is not installed
Load(t, ok) ==
    /\ pc[t] = "load"
    /\ Len(log) < MaxLoads
    /\ log' = Append(log, [lang |-> lang[t], ok |-> ok])
    /\ loaded' = [loaded EXCEPT ![t] = Len(log) + 1]
    /\ pc' = [pc EXCEPT ![t] = "assign"]
    /\ UNCHANGED <<cache, phase, lang, text, nlp, resp, doc>>
    /\ UNCHANGED ftVars

\* _nlp_cache[lang] = <what load_nlp returned>, or the RuntimeError of
\* load_nlp leaves get_nlp and is answered 500 by ner's except clause
Store(t) ==
    /\ pc[t] = "assign"
    /\ cache' = Assign(cache, lang[t], loaded[t])
    /\ IF log[loaded[t]].ok
       THEN /\ pc' = [pc EXCEPT ![t] = "ret"]
            /\ resp' = resp
       ELSE /\ pc' = [pc EXCEPT ![t] = "done"]
            /\ resp' = [resp EXCEPT ![t] = ner_except(ModelUnavailable(lang[t]))]
    /\ UNCHANGED <<log, phase, lang, text, loaded, nlp, doc>>
    /\ UNCHANGED ftVars

\* return _nlp_cache[lang] (a KeyError when the key is gone)
Return(t) ==
    /\ pc[t] = "ret"
    /\ IF cache[lang[t]] # Absent
       THEN /\ nlp' = [nlp EXCEPT ![t] = cache[lang[t]]]
            /\ pc' = [pc EXCEPT ![t] = "infer"]
            /\ resp' = resp
       ELSE /\ nlp' = nlp
            /\ pc' = [pc EXCEPT ![t] = "done"]
            /\ resp' = [resp EXCEPT ![t] = InternalServerError]
    /\ UNCHANGED <<cache, log, phase, lang, text, loaded, doc>>
    /\ UNCHANGED ftVars

\* doc = nlp(req.text); entities = [...]; return NERResponse(...)
\* (the response echoes req.text and req.lang, kept in text[t] and lang[t])
InferOk(t, ents) ==
    /\ pc[t] = "infer"
    /\ doc' = [doc EXCEPT ![t] = ents]
    /\ resp' = [resp EXCEPT ![t] = NERResponse(Entities(doc'[t]))]
    /\ pc' = [pc EXCEPT ![t] = "done"]
    /\ UNCHANGED <<cache, log, phase, lang, text, loaded, nlp>>
    /\ UNCHANGED ftVars

\* InferRaise when the failing request drops the model of its language
InferRaise_evicts(t) ==
    /\ pc[t] = "infer"
    /\ cache' = [cache EXCEPT ![lang[t]] = Absent]
    /\ resp' = [resp EXCEPT ![t] = InternalServerError]
    /\ pc' = [pc EXCEPT ![t] = "done"]
    /\ UNCHANGED <<log, phase, lang, text, loaded, nlp, doc>>
    /\ UNCHANGED ftVars

\* nlp(req.text) raises: ner catches nothing there, the framework answers 500
InferRaise(t) ==
    /\ pc[t] = "infer"
    /\ resp' = [resp EXCEPT ![t] = InternalServerError]
    /\ pc' = [pc EXCEPT ![t] = "done"]
    /\ UNCHANGED <<cache, log, phase, lang, text, loaded, nlp, doc>>
    /\ UNCHANGED ftVars

\* the response is sent and the thread goes back to the pool
Finish(t) ==
    /\ pc[t] = "done"
    /\ pc' = [pc EXCEPT ![t] = "idle"]
    /\ lang' = [lang EXCEPT ![t] = ""]
    /\ text' = [text EXCEPT ![t] = <<>>]
    /\ loaded' = [loaded EXCEPT ![t] = 0]
    /\ nlp' = [nlp EXCEPT ![t] = Absent]
    /\ doc' = [doc EXCEPT ![t] = <<>>]
    /\ resp' = [resp EXCEPT ![t] = NoResponse]
    /\ UNCHANGED <<cache, log, phase>>
    /\ UNCHANGED ftVars

\* lifespan: the code after "yield" runs when the server shuts down, after it
\* has stopped serving requests
Shutdown ==
    /\ phase = "serving"
    /\ \A t \in Threads : pc[t] = "idle"
    /\ cache' = [l \in LangCodes |-> Absent]
    /\ phase' = "stopped"
    /\ UNCHANGED <<log, pc, lang, text, loaded, nlp, resp, doc>>
    /\ UNCHANGED ftVars

\* ------------------------------------------------------- NER: specifications

NerInit ==
    /\ cache = [l \in LangCodes |-> Absent]
    /\ log = <<>>
    /\ phase = "serving"
    /\ pc = [t \in Threads |-> "idle"]
    /\ lang = [t \in Threads |-> ""]
    /\ text = [t \in Threads |-> <<>>]
    /\ loaded = [t \in Threads |-> 0]
    /\ nlp = [t \in Threads |-> Absent]
    /\ doc = [t \in Threads |-> <<>>]
    /\ resp = [t \in Threads |-> NoResponse]

\* ------------------------------------------------------- fastText

\* if input_data.k < 1 or input_data.k > 10
KMin == 1

KMax == 10

FtChars == {"a", " ", "\n"}

Whitespace == {" ", "\n"}

FtTexts == SeqsUpTo(FtChars, MaxTextLen)

\* the labels the classifier knows, as the prefix and the language code
FtLabels == {<<"__label__", "en">>, <<"__label__", "fr">>}

Confidences == {1, 9}

NoPredict == [called |-> FALSE, text |-> <<>>, k |-> 0]

NoDetect ==
    [text |-> <<>>, k |-> 0, status |-> 0, detail |-> "", predictions |-> <<>>,
     predict |-> NoPredict]

\* str.strip(): the text without its leading and trailing whitespace
RECURSIVE lstrip(_)
lstrip(txt) ==
    IF txt # <<>> /\ Head(txt) \in Whitespace THEN lstrip(Tail(txt)) ELSE txt

RECURSIVE rstrip(_)
rstrip(txt) ==
    IF txt # <<>> /\ txt[Len(txt)] \in Whitespace
    THEN rstrip(SubSeq(txt, 1, Len(txt) - 1))
    ELSE txt

strip(txt) == rstrip(lstrip(txt))

\* text.replace("\n", " ")
replace_newlines(txt) == [i \in 1 .. Len(txt) |-> IF txt[i] = "\n" THEN " " ELSE txt[i]]

\* lang.replace("__label__", "")
replace_label(lbl) == SelectSeq(lbl, LAMBDA x : x # "__label__")

\* ModelLoaded without the test
ModelLoaded_unchecked == TRUE

\* if not model
ModelLoaded == model # "None"

\* what model.predict(text, k) may return: up to k different labels, each
\* with a confidence
PredictResults(k) ==
    {r \in SeqsUpTo(FtLabels \X Confidences, Cardinality(FtLabels)) :
        /\ Len(r) >= 1
        /\ Len(r) <= k
        /\ \A i, j \in 1 .. Len(r) : i # j => r[i][1] # r[j][1]}

\* results = [LanguageDetection(language=..., confidence=...) for ...]
Detections(r) ==
    [i \in 1 .. Len(r) |-> [language |-> replace_label(r[i][1]), confidence |-> r[i][2]]]

\* the startup hook
load_model ==
    /\ startup = "pending"
    /\ IF file = "missing"
       THEN /\ startup' = "failed"
            /\ model' = model
       ELSE /\ startup' = "up"
            /\ model' = "loaded"
    /\ UNCHANGED <<file, detected>>
    /\ UNCHANGED nerVars

\* POST /detect; r is what model.predict returns
detect_language(txt, k) ==
    /\ detected = NoDetect
    /\ IF ~ModelLoaded
       THEN detected' = [text |-> txt, k |-> k, status |-> 503,
                         detail |-> "Model not loaded", predictions |-> <<>>,
                         predict |-> NoPredict]
       ELSE IF strip(txt) = <<>>
       THEN detected' = [text |-> txt, k |-> k, status |-> 400,
                         detail |-> "Text cannot be empty", predictions |-> <<>>,
                         predict |-> NoPredict]
       ELSE IF k < KMin \/ k > KMax
       THEN detected' = [text |-> txt, k |-> k, status |-> 400,
                         detail |-> "k must be between 1 and 10", predictions |-> <<>>,
                         predict |-> NoPredict]
       ELSE \E r \in PredictResults(k) :
                detected' = [text |-> txt, k |-> k, status |-> 200,
                             detail |-> "", predictions |-> Detections(r),
                             predict |-> [called |-> TRUE,
                                          text |-> replace_newlines(txt), k |-> k]]
    /\ UNCHANGED <<model, file, startup>>
    /\ UNCHANGED nerVars

\* the response of /detect is sent
detect_done ==
    /\ detected # NoDetect
    /\ detected' = NoDetect
    /\ UNCHANGED <<model, file, startup>>
    /\ UNCHANGED nerVars

FtInit ==
    /\ NerInit
    /\ model = "None"
    /\ file \in {"missing", "present"}
    /\ startup = "pending"
    /\ detected = NoDetect

FtNext ==
    \/ load_model
    \/ detect_done
    \/ \E txt \in FtTexts, k \in (KMin - 1) .. (KMax + 1) : detect_language(txt, k)

SpecFT == FtInit /\ [][FtNext]_vars

FtIdle ==
    /\ model = "None"
    /\ file = "missing"
    /\ startup = "pending"
    /\ detected = NoDetect

Init == NerInit /\ FtIdle

\* the languages and texts of the requests of the concurrent runs
RaceLangs == {"en", "ar", "zz"}

RaceTexts == {<<"a">>}

\* what the model reports in the concurrent runs: no span
RaceEnts == {<<>>}

\* the service while it serves: concurrent requests
ServingNext ==
    \E t \in Threads :
        \/ \E l \in RaceLangs, txt \in RaceTexts : Request(t, l, txt)
        \/ Check(t)
        \/ \E ok \in BOOLEAN : Load(t, ok)
        \/ Store(t)
        \/ Return(t)
        \/ \E ents \in RaceEnts : InferOk(t, ents)
        \/ InferRaise(t)
        \/ Finish(t)

SpecServing == Init /\ [][ServingNext]_vars

\* the service over its lifetime: concurrent requests, then the teardown
Next ==
    \/ \E t \in Threads :
        \/ \E l \in RaceLangs, txt \in RaceTexts : Request(t, l, txt)
        \/ Check(t)
        \/ \E ok \in BOOLEAN : Load(t, ok)
        \/ Store(t)
        \/ Return(t)
        \/ \E ents \in RaceEnts : InferOk(t, ents)
        \/ InferRaise(t)
        \/ Finish(t)
    \/ Shutdown

Spec == Init /\ [][Next]_vars

\* one thread: the requests run one after the other, with every language
\* code
SeqNext ==
    \/ \E l \in LangCodes, txt \in RaceTexts \cup {<<>>} : Request(1, l, txt)
    \/ Check(1)
    \/ \E ok \in BOOLEAN : Load(1, ok)
    \/ Store(1)
    \/ Return(1)
    \/ \E ents \in RaceEnts : InferOk(1, ents)
    \/ InferRaise(1)
    \/ Finish(1)
    \/ Shutdown

SpecSeq == Init /\ [][SeqNext]_vars

\* one thread and one language, with every text and every list of spans
InferNext ==
    \/ \E txt \in Texts : Request(1, "en", txt)
    \/ Check(1)
    \/ \E ok \in BOOLEAN : Load(1, ok)
    \/ Store(1)
    \/ Return(1)
    \/ \E ents \in SeqsUpTo(SpansOf(text[1]), MaxSpans) : InferOk(1, ents)
    \/ InferRaise(1)
    \/ Finish(1)
    \/ Shutdown

SpecInfer == Init /\ [][InferNext]_vars

\* ------------------------------------------------------- properties

\* the calls of load_nlp made for language l
LoadCalls(l) == {i \in 1 .. Len(log) : log[i].lang = l}

First(S) == CHOOSE i \in S : \A j \in S : i <= j

Working == {"check", "load", "assign", "ret", "infer"}

\* C1: concurrent requests for the same supported, never-loaded language
\* invoke load_nlp exactly once for it: as long as no load of the language
\* has failed, load_nlp has been called for it at most once, and every
\* request that obtained its model has left exactly one call behind.
C1_ExactlyOneLoad ==
    \A l \in SUPPORTED_LANGS :
        (\A i \in LoadCalls(l) : log[i].ok) =>
            /\ Cardinality(LoadCalls(l)) <= 1
            /\ \A t \in Threads :
                   (lang[t] = l /\ nlp[t] # Absent) => Cardinality(LoadCalls(l)) = 1

\* C2: when the requests run one after the other and the first load of a
\* language succeeded, every call of get_nlp for it returns the handle of
\* that first load, the cache holds that handle while the service runs, and
\* load_nlp has been called exactly once for the language.
C2_SameHandleOneLoad ==
    \A l \in SUPPORTED_LANGS :
        (LoadCalls(l) # {} /\ log[First(LoadCalls(l))].ok) =>
            /\ Cardinality(LoadCalls(l)) = 1
            /\ \A t \in Threads :
                   (lang[t] = l /\ nlp[t] # Absent) => nlp[t] = First(LoadCalls(l))
            /\ \A t \in Threads :
                   (lang[t] = l /\ pc[t] \in {"ret", "infer"}) =>
                       cache[l] = First(LoadCalls(l))

\* C2 witness: a request is served from the cache (it called load_nlp not at
\* all) with the handle of the only load of its language.
C2_CacheHit ==
    \E t \in Threads :
        /\ pc[t] = "infer"
        /\ loaded[t] = 0
        /\ nlp[t] # Absent
        /\ Cardinality(LoadCalls(lang[t])) = 1

\* C3: a failed load is never cached.  No key of the cache holds the result
\* of a load that failed; after a request whose load failed, the key of its
\* language is Absent; and a request that obtained a model obtained the
\* result of a successful load of its language, which the cache then holds:
\* after a failure that takes a new call of load_nlp.
C3_FailedLoadNotCached ==
    /\ \A l \in LangCodes :
           cache[l] # Absent => (log[cache[l]].ok /\ log[cache[l]].lang = l)
    /\ \A t \in Threads :
           (pc[t] = "done" /\ loaded[t] # 0 /\ ~log[loaded[t]].ok) =>
               /\ cache[lang[t]] = Absent
               /\ nlp[t] = Absent
               /\ resp[t].status = 500
    /\ \A t \in Threads :
           nlp[t] # Absent =>
               /\ log[nlp[t]].ok
               /\ log[nlp[t]].lang = lang[t]
               /\ cache[lang[t]] = nlp[t]

\* C3 witness: the first load of a language failed, a later request loaded
\* it again with success, was answered 200, and the key is Loaded.
C3_Recovered ==
    \E t \in Threads :
        \E i, j \in 1 .. Len(log) :
            /\ i < j
            /\ log[i] = [lang |-> lang[t], ok |-> FALSE]
            /\ log[j] = [lang |-> lang[t], ok |-> TRUE]
            /\ loaded[t] = j
            /\ pc[t] = "done"
            /\ resp[t].status = 200
            /\ cache[lang[t]] = j

\* C4: a request that reaches get_nlp with a language that is not a key of
\* MODELS is answered 400 with the unsupported-language message in that very
\* step, which calls load_nlp not at all and leaves the cache as it was.
C4_UnsupportedRejected ==
    [][\A t \in Threads :
          (/\ pc[t] = "idle"
           /\ pc'[t] # "idle"
           /\ Len(text'[t]) >= 1
           /\ lang'[t] \notin DOMAIN MODELS) =>
              /\ pc'[t] = "done"
              /\ resp'[t].status = 400
              /\ resp'[t].detail = [what |-> "Unsupported language", arg |-> lang'[t]]
              /\ loaded'[t] = 0
              /\ nlp'[t] = Absent
              /\ cache' = cache
              /\ log' = log]_vars

\* C4 witness: a request for an unsupported language was answered 400 while
\* the cache held a model.
C4_RejectedWithCacheFilled ==
    \E t \in Threads :
        /\ pc[t] = "done"
        /\ lang[t] \notin DOMAIN MODELS
        /\ resp[t].status = 400
        /\ \E l \in LangCodes : cache[l] # Absent

\* C5: Loaded is terminal: no step of the service removes the entry of a key
\* that holds a model or replaces it by another handle.
C5_LoadedTerminal ==
    [][\A l \in LangCodes : cache[l] # Absent => cache'[l] = cache[l]]_vars

\* C6: a request that entered ner ends in the outcome the registry and the
\* loader decide: 400 with the unsupported-language message when its language
\* is not a key of MODELS (the loader is not called); 500 with the
\* model-unavailable message, naming the model of the language, when its
\* load failed; and otherwise a model of its language was obtained and the
\* answer carries neither of the two errors.
C6_Outcomes ==
    \A t \in Threads :
        (pc[t] = "done" /\ Len(text[t]) >= 1) =>
            IF lang[t] \notin DOMAIN MODELS
            THEN /\ resp[t].status = 400
                 /\ resp[t].detail = [what |-> "Unsupported language", arg |-> lang[t]]
                 /\ loaded[t] = 0
                 /\ nlp[t] = Absent
            ELSE IF loaded[t] # 0 /\ ~log[loaded[t]].ok
            THEN /\ resp[t].status = 500
                 /\ resp[t].detail =
                        [what |-> "Model not found. Run: python -m spacy download",
                         arg |-> MODELS[lang[t]]]
                 /\ nlp[t] = Absent
            ELSE /\ nlp[t] # Absent
                 /\ log[nlp[t]].ok
                 /\ log[nlp[t]].lang = lang[t]
                 /\ resp[t].status \in {200, 500}
                 /\ resp[t].detail.what \in {"", "Internal Server Error"}

\* C6 witness: one request was answered 400 for an unsupported language and
\* another 500 for a model that is not installed.
C6_BothErrors ==
    \E t, u \in Threads :
        /\ pc[t] = "done"
        /\ lang[t] \notin DOMAIN MODELS
        /\ resp[t].status = 400
        /\ pc[u] = "done"
        /\ loaded[u] # 0
        /\ ~log[loaded[u]].ok
        /\ resp[u].status = 500

C8_EntitiesAsReported ==
    \A t \in Threads :
        (pc[t] = "done" /\ resp[t].status = 200) =>
            /\ Len(resp[t].entities) = Len(doc[t])
            /\ \A i \in 1 .. Len(doc[t]) :
                   /\ resp[t].entities[i].text = doc[t][i].text
                   /\ resp[t].entities[i].label = doc[t][i].label_
                   /\ resp[t].entities[i].start = doc[t][i].start_char
                   /\ resp[t].entities[i].end = doc[t][i].end_char
                   /\ 0 <= resp[t].entities[i].start
                   /\ resp[t].entities[i].start <= resp[t].entities[i].end
                   /\ resp[t].entities[i].end <= Len(text[t])

\* C8 witness: a 200 answer with two overlapping entities, the later one of
\* the text first.
C8_TwoOverlappingEntities ==
    \E t \in Threads :
        /\ pc[t] = "done"
        /\ resp[t].status = 200
        /\ Len(resp[t].entities) = 2
        /\ resp[t].entities[1].start > resp[t].entities[2].start
        /\ resp[t].entities[1].start < resp[t].entities[2].end
        /\ resp[t].entities[1].label # resp[t].entities[2].label

\* C9: the step in which inference raises leaves the cache and the loader
\* alone, the key of the request's language still holding its model; and a
\* request that finds the key in the cache goes on without a load and gets
\* the handle the cache holds.
C9_InferenceFailureKeepsCache ==
    [][\A t \in Threads :
          /\ (pc[t] = "infer" /\ pc'[t] = "done" /\ resp'[t].status = 500) =>
                 /\ cache[lang[t]] # Absent
                 /\ cache' = cache
                 /\ log' = log
          /\ (pc[t] = "check" /\ cache[lang[t]] # Absent /\ pc'[t] # "check") =>
                 /\ pc'[t] = "ret"
                 /\ cache' = cache
                 /\ log' = log
          /\ (pc[t] = "ret" /\ pc'[t] # "ret") =>
                 /\ pc'[t] = "infer"
                 /\ nlp'[t] = cache[lang[t]]
                 /\ nlp'[t] # Absent]_vars

\* C9 witness: inference raised for one request, the key still holds the
\* model, and another request for the language is served from the cache
\* without a load of its own.
C9_FailedThenServed ==
    \E t, u \in Threads :
        /\ pc[t] = "done"
        /\ resp[t].status = 500
        /\ nlp[t] # Absent
        /\ cache[lang[t]] = nlp[t]
        /\ lang[u] = lang[t]
        /\ pc[u] = "infer"
        /\ loaded[u] = 0
        /\ nlp[u] = nlp[t]

Blank(txt) == \A i \in 1 .. Len(txt) : txt[i] \in {" ", "\n"}

\* C10: /detect calls model.predict exactly when the model is loaded, the
\* text is not blank and 1 <= k <= 10; otherwise it answers 503, 400 (blank
\* text) or 400 (k out of range), the checks taking precedence in that
\* order.  The model is loaded only by a startup hook that found the file:
\* with the file missing the model stays None.
C10_PredictOnlyWhenLoadedAndValid ==
    [][/\ (detected = NoDetect /\ detected' # NoDetect) =>
              /\ detected'.predict.called =
                     (model = "loaded" /\ ~Blank(detected'.text)
                         /\ 1 <= detected'.k /\ detected'.k <= 10)
              /\ detected'.status =
                     IF model # "loaded" THEN 503
                     ELSE IF Blank(detected'.text) THEN 400
                     ELSE IF detected'.k < 1 \/ detected'.k > 10 THEN 400
                     ELSE 200
              /\ detected'.detail =
                     IF model # "loaded" THEN "Model not loaded"
                     ELSE IF Blank(detected'.text) THEN "Text cannot be empty"
                     ELSE IF detected'.k < 1 \/ detected'.k > 10
                          THEN "k must be between 1 and 10"
                     ELSE ""
       /\ file = "missing" => (model = "None" /\ model' = "None")
       /\ (file = "missing" /\ startup = "pending" /\ startup' # "pending") =>
              startup' = "failed"
       /\ model' = "loaded" => (startup' = "up" /\ file = "present")]_vars

\* C10 witness: a prediction was made for a text with whitespace around it
\* and the largest k.
C10_Predicted ==
    /\ detected.predict.called
    /\ detected.status = 200
    /\ detected.k = 10
    /\ Len(detected.text) > 1
    /\ strip(detected.text) # detected.text
    /\ model = "loaded"

====
